---------------------------- MODULE Spec2Model ----------------------------
(***************************************************************************)
(* A model of the NURBS evaluation kernel of src/low_level_functions.cc    *)
(* and src/nrbsurfderiveval.cc: findspan, basisfun, bspeval, bspderiv, the *)
(* rational unweighting recursion of nrbsurfderiveval and the factln memo  *)
(* cache.                                                                  *)
(*                                                                         *)
(* A C double is modelled by an exact extended rational <<num, den>> with  *)
(* den >= 0 in lowest terms; den = 0 stands for the IEEE values a division *)
(* by zero produces: <<1,0>> = +Inf, <<-1,0>> = -Inf, <<0,0>> = NaN.       *)
(* Array indices are the 0-based indices of the source.                    *)
(***************************************************************************)
EXTENDS Integers, Sequences, FiniteSets, TLC

VARIABLES fs,   \* findspan: its arguments, locals, control position
          bf,   \* basisfun: its arguments, locals, control position
          ev,   \* bspeval
          bd,   \* bspderiv
          sk,   \* nrbsurfderiveval
          fl    \* factln / bincoeff and their static cache

vars == <<fs, bf, ev, bd, sk, fl>>

Idle == [pc |-> "idle"]

----------------------------------------------------------------------------
(* Bounds of the model.                                                    *)

MaxN == 3        \* largest n (number of control points - 1)
MaxP == 2        \* largest spline degree
MaxKnot == 3     \* knots are drawn from {0, 1/2, ..., MaxKnot/2}
MaxSamples == 2  \* largest number of parametric points of a batch
MaxRows == 2     \* largest number of rows of a control point matrix
MaxD == 2        \* largest derivative order d of nrbsurfderiveval
MaxArg == 3      \* bincoeff is called for n in 0..MaxArg and n around 100
MaxCalls == 2    \* largest number of calls of bincoeff in a run

----------------------------------------------------------------------------
(* Extended rational arithmetic standing for double arithmetic.            *)

Abs(x) == IF x < 0 THEN -x ELSE x

Sign(x) == IF x < 0 THEN -1 ELSE IF x > 0 THEN 1 ELSE 0

Max(a, b) == IF a < b THEN b ELSE a

RECURSIVE Gcd(_, _)
Gcd(a, b) == IF b = 0 THEN a ELSE Gcd(b, a % b)

Norm(x) ==
    IF x[2] = 0 THEN <<Sign(x[1]), 0>>
    ELSE LET g == Gcd(Abs(x[1]), Abs(x[2]))
             s == Sign(x[2])
         IN  <<(s * x[1]) \div g, (s * x[2]) \div g>>

R(a, b) == Norm(<<a, b>>)

Zero == <<0, 1>>
One == <<1, 1>>
NaN == <<0, 0>>

IsFinite(x) == x[2] # 0

RAdd(x, y) ==
    IF x[2] = 0 /\ y[2] = 0
    THEN (IF x[1] = y[1] THEN x ELSE NaN)
    ELSE Norm(<<x[1] * y[2] + y[1] * x[2], x[2] * y[2]>>)

RNeg(x) == <<-x[1], x[2]>>

RSub(x, y) == RAdd(x, RNeg(y))

RMul(x, y) == Norm(<<x[1] * y[1], x[2] * y[2]>>)

\* 1 / y; 1 / 0 = +Inf (the sign of a zero is not modelled)
Recip(y) ==
    IF y[1] = 0 THEN Norm(<<y[2], 0>>)
    ELSE Norm(<<y[2] * Sign(y[1]), Abs(y[1])>>)

RDiv(x, y) == RMul(x, Recip(y))

\* x < y on doubles: false whenever a NaN is compared
RLt(x, y) ==
    /\ x # NaN
    /\ y # NaN
    /\ IF x[2] = 0 /\ y[2] = 0 THEN x[1] < y[1]
       ELSE x[1] * y[2] < y[1] * x[2]

\* x == y on doubles
REq(x, y) == x # NaN /\ y # NaN /\ x = y

RGe(x, y) == RLt(y, x) \/ REq(x, y)

RLe(x, y) == RGe(y, x)

----------------------------------------------------------------------------
(* Input spaces.                                                           *)

RECURSIVE NonDecr(_, _)
\* the non-decreasing sequences of length len over lo..MaxKnot
NonDecr(len, lo) ==
    IF len = 0 THEN {<<>>}
    ELSE UNION {{<<g>> \o s : s \in NonDecr(len - 1, g)} : g \in lo..MaxKnot}

\* a knot vector as the 0-based array U(0..len-1), knot g standing for g/2
KnotArray(s) == [i \in 0..(Len(s) - 1) |-> R(s[i + 1], 2)]

KnotVectors(len) == {KnotArray(s) : s \in NonDecr(len, 0)}

\* parametric values: the quarter points of the knot range
Params == {R(j, 4) : j \in 0..(2 * MaxKnot)}

----------------------------------------------------------------------------
(* The unit test of findspan and basisfun, low_level_functions.cc 324-344. *)

TestN == 3
TestP == 2
TestSamples == 10
TestU == [i \in 0..6 |-> IF i < 3 THEN Zero ELSE IF i = 3 THEN R(1, 2) ELSE One]
\* linspace (0, 1, 10)
TestLinspace == [i \in 0..(TestSamples - 1) |-> R(i, TestSamples - 1)]
\* [2*ones(1, 5) 3*ones(1, 5)]
TestSpans == [i \in 0..(TestSamples - 1) |-> IF i < 5 THEN 2 ELSE 3]

----------------------------------------------------------------------------
(* findspan (n, p, u, U), Algorithm A2.1.                                  *)

\* a search that accepts the closed span: u > U(mid+1) for u >= U(mid+1)
FsCondClosed(u, U, mid) == RLt(u, U[mid]) \/ RLt(U[mid + 1], u)

\* the loop condition  u < U(mid) || u >= U(mid+1)
FsCond(u, U, mid) == RLt(u, U[mid]) \/ RGe(u, U[mid + 1])

\* mid = (low + high) / 2, C integer division of non-negative ints
FsMid(low, high) == (low + high) \div 2

\* the loop body: narrow high or low to mid, recompute mid
FsBody(u, U, low, high, mid) ==
    IF RLt(u, U[mid])
    THEN [low |-> low, high |-> mid, mid |-> FsMid(low, mid)]
    ELSE [low |-> mid, high |-> high, mid |-> FsMid(mid, high)]

\* the special case  if (u == U(n+1)) return(n)
FsSpecialCase(n, u, U) == REq(u, U[n + 1])

Array(seq) == [i \in 0..(Len(seq) - 1) |-> seq[i + 1]]

Size(a) == Cardinality(DOMAIN a)

\* the arguments of a call of the exported findspan: 0 <= p <= n, U
\* non-decreasing of length n+p+2, the values u in the documented range
\* U(1) <= u <= U(end); or the arguments of the unit test
FsCalls ==
    {[n |-> np[1], p |-> np[2], U |-> U, u |-> Array(<<x>>)] :
        np \in {q \in (0..MaxN) \X (0..MaxP) : q[2] <= q[1]},
        U \in UNION {KnotVectors(len) : len \in 2..(MaxN + MaxP + 2)},
        x \in Params}
    \cup {[n |-> TestN, p |-> TestP, U |-> TestU, u |-> TestLinspace]}

FsValidCall(c) ==
    /\ Size(c.U) = c.n + c.p + 2
    /\ \A i \in DOMAIN c.u :
          RLe(c.U[0], c.u[i]) /\ RLe(c.u[i], c.U[Size(c.U) - 1])

\* NDArray s(u): the result starts as a copy of u
FsStart(c) ==
    [pc |-> "loop", n |-> c.n, p |-> c.p, U |-> c.U, u |-> c.u,
     ii |-> 0, s |-> c.u, ui |-> Zero, low |-> -1, high |-> -1, mid |-> -1]

FsInit ==
    /\ \E c \in FsCalls : FsValidCall(c) /\ fs = FsStart(c)
    /\ bf = Idle /\ ev = Idle /\ bd = Idle /\ sk = Idle /\ fl = Idle

FsFrame == UNCHANGED <<bf, ev, bd, sk, fl>>

\* for (ii = 0; ii < u.length (); ii++)  s(ii) = findspan (n, p, u(ii), U)
FsCall ==
    /\ fs.pc = "loop"
    /\ fs.ii < Size(fs.u)
    /\ fs' = [fs EXCEPT !.pc = "entry", !.ui = fs.u[fs.ii]]
    /\ FsFrame

\* the loop of the exported function is over: retval(0) = s
FsDone ==
    /\ fs.pc = "loop"
    /\ fs.ii >= Size(fs.u)
    /\ fs' = [fs EXCEPT !.pc = "done"]
    /\ FsFrame

\* findspan returns r to the exported function's loop
FsRet(r) ==
    [fs EXCEPT !.pc = "loop", !.s[fs.ii] = R(r, 1), !.ii = fs.ii + 1]

FsSpecial ==
    /\ fs.pc = "entry"
    /\ FsSpecialCase(fs.n, fs.ui, fs.U)
    /\ fs' = FsRet(fs.n)
    /\ FsFrame

\* low = p; high = n + 1; mid = (low + high) / 2
FsSearch ==
    /\ fs.pc = "entry"
    /\ ~FsSpecialCase(fs.n, fs.ui, fs.U)
    /\ fs' = [fs EXCEPT !.pc = "test", !.low = fs.p, !.high = fs.n + 1,
                        !.mid = FsMid(fs.p, fs.n + 1)]
    /\ FsFrame

\* the while condition holds: enter the body
FsEnterBody ==
    /\ fs.pc = "test"
    /\ FsCond(fs.ui, fs.U, fs.mid)
    /\ fs' = [fs EXCEPT !.pc = "body"]
    /\ FsFrame

\* the while condition fails: return(mid)
FsReturn ==
    /\ fs.pc = "test"
    /\ ~FsCond(fs.ui, fs.U, fs.mid)
    /\ fs' = FsRet(fs.mid)
    /\ FsFrame

FsIterate ==
    /\ fs.pc = "body"
    /\ LET b == FsBody(fs.ui, fs.U, fs.low, fs.high, fs.mid)
       IN  fs' = [fs EXCEPT !.pc = "test", !.low = b.low, !.high = b.high,
                            !.mid = b.mid]
    /\ FsFrame

FsNext ==
    \/ FsCall
    \/ FsDone
    \/ FsSpecial
    \/ FsSearch
    \/ FsEnterBody
    \/ FsReturn
    \/ FsIterate

SpecFindspan == FsInit /\ [][FsNext]_vars

\* the loop of findspan is sequential code: a step that can be taken is taken
FairFindspan == SpecFindspan /\ WF_vars(FsNext)

\* the claims' precondition on a parametric value: U[0] <= u <= U[n+1]
FsInDomain(u) == RLe(fs.U[0], u) /\ RLe(u, fs.U[fs.n + 1])

FsIsTest == fs.n = TestN /\ fs.p = TestP /\ fs.U = TestU /\ fs.u = TestLinspace

\* C1: every result findspan has returned for a u with U[0] <= u <= U[n+1]
\* is n when u = U[n+1], and otherwise a span s with p <= s <= n and
\* U[s] <= u < U[s+1]; for the unit test's n = 3, p = 2, U = [0 0 0 1/2 1 1 1]
\* and the ten samples of linspace (0, 1, 10) the results are
\* [2 2 2 2 2 3 3 3 3 3].
C1_FindspanResult ==
    \A i \in 0..(fs.ii - 1) :
        /\ FsInDomain(fs.u[i]) =>
              IF REq(fs.u[i], fs.U[fs.n + 1])
              THEN fs.s[i] = R(fs.n, 1)
              ELSE \E m \in fs.p..fs.n :
                      /\ fs.s[i] = R(m, 1)
                      /\ RLe(fs.U[m], fs.u[i])
                      /\ RLt(fs.u[i], fs.U[m + 1])
        /\ FsIsTest => fs.s[i] = R(TestSpans[i], 1)

\* C1 witness: the unit test has run to its end, through the binary search
\* and, for its last sample, the special case
C1_Witness ==
    /\ fs.pc = "done"
    /\ FsIsTest
    /\ fs.low = TestP
    /\ fs.s[TestSamples - 1] = R(TestN, 1)

\* C2: every call of findspan for a u with U[0] <= u <= U[n+1] returns
C2_FindspanTerminates ==
    (fs.pc = "entry" /\ FsInDomain(fs.ui)) ~> (fs.pc = "loop")

----------------------------------------------------------------------------
(* basisfun (i, u, p, U, N), Algorithm A2.2.                               *)

RECURSIVE FsLoop(_, _, _, _, _)
\* the while loop of findspan run to its exit
FsLoop(u, U, low, high, mid) ==
    IF FsCond(u, U, mid)
    THEN LET b == FsBody(u, U, low, high, mid)
         IN  FsLoop(u, U, b.low, b.high, b.mid)
    ELSE mid

\* the value findspan (n, p, u, U) returns
FindSpan(n, p, u, U) ==
    IF FsSpecialCase(n, u, U) THEN n
    ELSE FsLoop(u, U, p, n + 1, FsMid(p, n + 1))

\* left[j] = u - U(i+1-j)
BfLeft(i, u, U, j) == RSub(u, U[i + 1 - j])

\* right[j] = U(i+j) - u
BfRight(i, u, U, j) == RSub(U[i + j], u)

RECURSIVE BfInnerNoSaved(_, _, _, _, _, _)
\* the inner loop with  N(r) = right[r+1] * temp,  saved left out
BfInnerNoSaved(N, left, right, j, r, saved) ==
    IF r < j
    THEN LET temp == RDiv(N[r], RAdd(right[r + 1], left[j - r]))
         IN  BfInnerNoSaved([N EXCEPT ![r] = RMul(right[r + 1], temp)],
                            left, right, j, r + 1, RMul(left[j - r], temp))
    ELSE [N |-> N, saved |-> saved]

RECURSIVE BfInner(_, _, _, _, _, _)
\* for (r = 0; r < j; r++), from r on: the array N and saved at the exit
BfInner(N, left, right, j, r, saved) ==
    IF r < j
    THEN LET temp == RDiv(N[r], RAdd(right[r + 1], left[j - r]))
         IN  BfInner([N EXCEPT ![r] = RAdd(saved, RMul(right[r + 1], temp))],
                     left, right, j, r + 1, RMul(left[j - r], temp))
    ELSE [N |-> N, saved |-> saved]

\* one pass of  for (j = 1; j <= p; j++)  on the arrays N, left, right
BfPassOn(i, u, U, N, left, right, j) ==
    LET l == [left EXCEPT ![j] = BfLeft(i, u, U, j)]
        r == [right EXCEPT ![j] = BfRight(i, u, U, j)]
        in == BfInner(N, l, r, j, 0, Zero)
    IN  [N |-> [in.N EXCEPT ![j] = in.saved], left |-> l, right |-> r]

\* calls with the span findspan returns, for u in the range where it returns
BfCalls ==
    UNION {{[n |-> c.n, p |-> c.p, U |-> c.U, u |-> c.u[x]] : x \in DOMAIN c.u} :
              c \in {d \in FsCalls : FsValidCall(d)}}

BfValidCall(c) == RLe(c.U[c.p], c.u) /\ RLe(c.u, c.U[c.n + 1])

\* RowVector N(p+1, 0.0); left and right are uninitialised work space, whose
\* entries are written before they are read
BfStart(c) ==
    [pc |-> "entry", n |-> c.n, i |-> FindSpan(c.n, c.p, c.u, c.U), u |-> c.u,
     p |-> c.p, U |-> c.U, N |-> [r \in 0..c.p |-> Zero],
     left |-> [r \in 0..c.p |-> NaN], right |-> [r \in 0..c.p |-> NaN],
     j |-> 0, filled |-> {}]

BfInit ==
    /\ \E c \in BfCalls : BfValidCall(c) /\ bf = BfStart(c)
    /\ fs = Idle /\ ev = Idle /\ bd = Idle /\ sk = Idle /\ fl = Idle

BfFrame == UNCHANGED <<fs, ev, bd, sk, fl>>

\* N(0) = 1.0; j = 1
BfEntry ==
    /\ bf.pc = "entry"
    /\ bf' = [bf EXCEPT !.pc = "loop", !.N[0] = One, !.j = 1,
                        !.filled = {0}]
    /\ BfFrame

\* one pass of  for (j = 1; j <= p; j++)
BfPass ==
    /\ bf.pc = "loop"
    /\ bf.j <= bf.p
    /\ LET j == bf.j
           a == BfPassOn(bf.i, bf.u, bf.U, bf.N, bf.left, bf.right, j)
       IN  bf' = [bf EXCEPT !.left = a.left, !.right = a.right, !.N = a.N,
                            !.filled = bf.filled \cup (0..j),
                            !.j = j + 1]
    /\ BfFrame

BfExit ==
    /\ bf.pc = "loop"
    /\ bf.j > bf.p
    /\ bf' = [bf EXCEPT !.pc = "done"]
    /\ BfFrame

BfNext ==
    \/ BfEntry
    \/ BfPass
    \/ BfExit

SpecBasisfun == BfInit /\ [][BfNext]_vars

RECURSIVE RSum(_, _)
\* N[0] + ... + N[k]
RSum(N, k) == IF k < 0 THEN Zero ELSE RAdd(RSum(N, k - 1), N[k])

BfIsTest == bf.n = TestN /\ bf.p = TestP /\ bf.U = TestU

\* C3: for a span i = findspan (n, p, u, U) with U[i] < U[i+1], basisfun has
\* filled exactly N[0..p], every entry is >= 0 and the entries sum to 1; for
\* the unit test's spline the result is [1 0 0] at u = 0 and [0 0 1] at u = 1.
C3_BasisfunPartitionOfUnity ==
    (bf.pc = "done" /\ RLt(bf.U[bf.i], bf.U[bf.i + 1])) =>
        /\ bf.filled = 0..bf.p
        /\ DOMAIN bf.N = 0..bf.p
        /\ \A r \in 0..bf.p : RGe(bf.N[r], Zero)
        /\ RSum(bf.N, bf.p) = One
        /\ (BfIsTest /\ bf.u = Zero) => bf.N = Array(<<One, Zero, Zero>>)
        /\ (BfIsTest /\ bf.u = One) => bf.N = Array(<<Zero, Zero, One>>)

\* C3 witness: a basis of degree 2 evaluated strictly inside a span, all
\* three functions positive
C3_Witness ==
    /\ bf.pc = "done"
    /\ bf.p = 2
    /\ RLt(bf.U[bf.i], bf.U[bf.i + 1])
    /\ \A r \in 0..bf.p : RLt(Zero, bf.N[r])

----------------------------------------------------------------------------
(* bspeval (d, c, k, u).                                                   *)

RECURSIVE BfRun(_, _, _, _, _, _, _, _)
\* the loop of basisfun from pass j on: the array N at its exit
BfRun(i, u, p, U, N, left, right, j) ==
    IF j <= p
    THEN LET a == BfPassOn(i, u, U, N, left, right, j)
         IN  BfRun(i, u, p, U, a.N, a.left, a.right, j + 1)
    ELSE N

\* the array N after basisfun (i, u, p, U, N)
BasisFun(i, u, p, U, N) ==
    BfRun(i, u, p, U, [N EXCEPT ![0] = One],
          [r \in 0..p |-> NaN], [r \in 0..p |-> NaN], 1)

Min(a, b) == IF a < b THEN a ELSE b

\* a knot vector of length nk, clamped for degree d, with steps of 1/2
ClampedKnots(nk, d) ==
    [i \in 0..(nk - 1) |->
        R(Min(Max(i - d, 0), Max(nk - 2 * d - 1, 1)), 2)]

\* a control point matrix c(row, col)
ControlNet(mc, nc) ==
    [row \in 0..(mc - 1) |-> [col \in 0..(nc - 1) |-> R(row + col * col, 1)]]

\* nu parametric points a quarter apart, from j/4 on
SampleRun(j, nu) == [i \in 0..(nu - 1) |-> R(j + i, 4)]

\* if (nc + d == k.length() - 1)
EvConsistent(nc, d, nk) == nc + d = nk - 1

EvCalls ==
    {[d |-> d, c |-> ControlNet(mc, nc), k |-> ClampedKnots(nk, d),
      u |-> SampleRun(j, nu)] :
        d \in 0..MaxP, nc \in 1..(MaxN + 1), mc \in 1..MaxRows,
        nk \in 2..(MaxN + MaxP + 2), j \in 0..(2 * MaxKnot),
        nu \in 0..MaxSamples}

EvCols(c) == Size(c[0])

\* consistent data describe a spline (d < nc) and come with points of its
\* domain [k(d), k(nc)], where findspan returns
EvValidCall(a) ==
    EvConsistent(EvCols(a.c), a.d, Size(a.k)) =>
        /\ a.d < EvCols(a.c)
        /\ \A i \in DOMAIN a.u :
              RLe(a.k[a.d], a.u[i]) /\ RLe(a.u[i], a.k[EvCols(a.c)])

\* Matrix p(mc, nu, 0.0); RowVector N(d+1, 0.0); the arguments converted
\* without error.  errors, spans and bases count the calls of error,
\* findspan and basisfun.
EvStart(a) ==
    [pc |-> "entry", d |-> a.d, c |-> a.c, k |-> a.k, u |-> a.u,
     nu |-> Size(a.u), mc |-> Size(a.c), nc |-> EvCols(a.c),
     p |-> [row \in 0..(Size(a.c) - 1) |-> [col \in 0..(Size(a.u) - 1) |-> Zero]],
     N |-> [r \in 0..a.d |-> Zero], col |-> 0, error_state |-> FALSE,
     errors |-> 0, spans |-> 0, bases |-> 0, retval |-> <<>>]

EvInit ==
    /\ \E a \in EvCalls : EvValidCall(a) /\ ev = EvStart(a)
    /\ fs = Idle /\ bf = Idle /\ bd = Idle /\ sk = Idle /\ fl = Idle

EvFrame == UNCHANGED <<fs, bf, bd, sk, fl>>

\* the data are consistent: start the loop over the columns
EvAccept ==
    /\ ev.pc = "entry"
    /\ ~ev.error_state
    /\ EvConsistent(ev.nc, ev.d, Size(ev.k))
    /\ ev' = [ev EXCEPT !.pc = "cols", !.col = 0]
    /\ EvFrame

\* error reported once for each parametric point
EvRejectPerPoint ==
    /\ ev.pc = "entry"
    /\ ~ev.error_state
    /\ ~EvConsistent(ev.nc, ev.d, Size(ev.k))
    /\ ev' = [ev EXCEPT !.pc = "return", !.error_state = TRUE,
                        !.errors = ev.errors + ev.nu]
    /\ EvFrame

\* error ("inconsistent bspline data, d + columns(c) != length(k) - 1.")
EvReject ==
    /\ ev.pc = "entry"
    /\ ~ev.error_state
    /\ ~EvConsistent(ev.nc, ev.d, Size(ev.k))
    /\ ev' = [ev EXCEPT !.pc = "return", !.error_state = TRUE,
                        !.errors = ev.errors + 1]
    /\ EvFrame

RECURSIVE EvDot(_, _, _, _)
\* tmp2 = N(0)*c(row,tmp1) + ... + N(i)*c(row,tmp1+i)
EvDot(N, crow, tmp1, i) ==
    IF i < 0 THEN Zero
    ELSE RAdd(EvDot(N, crow, tmp1, i - 1), RMul(N[i], crow[tmp1 + i]))

\* one pass of  for (col = 0; col < nu; col++)
EvColumn ==
    /\ ev.pc = "cols"
    /\ ev.col < ev.nu
    /\ LET s == FindSpan(ev.nc - 1, ev.d, ev.u[ev.col], ev.k)
           N == BasisFun(s, ev.u[ev.col], ev.d, ev.k, ev.N)
           tmp1 == s - ev.d
       IN  ev' = [ev EXCEPT
                     !.N = N,
                     !.p = [row \in 0..(ev.mc - 1) |->
                               [ev.p[row] EXCEPT
                                   ![ev.col] = EvDot(N, ev.c[row], tmp1, ev.d)]],
                     !.spans = ev.spans + 1, !.bases = ev.bases + 1,
                     !.col = ev.col + 1]
    /\ EvFrame

EvColsDone ==
    /\ ev.pc = "cols"
    /\ ev.col >= ev.nu
    /\ ev' = [ev EXCEPT !.pc = "return"]
    /\ EvFrame

\* retval(0) = octave_value(p); return retval
EvReturn ==
    /\ ev.pc = "return"
    /\ ev' = [ev EXCEPT !.pc = "done", !.retval = <<ev.p>>]
    /\ EvFrame

EvNext ==
    \/ EvAccept
    \/ EvReject
    \/ EvColumn
    \/ EvColsDone
    \/ EvReturn

SpecBspeval == EvInit /\ [][EvNext]_vars

\* C4: a call of bspeval whose knot vector has a length other than
\* nc + d + 1 reports the inconsistency error exactly once, whatever the
\* number of points, and calls findspan and basisfun for no column; a call
\* with consistent lengths reports no such error.
C4_BspevalInconsistentData ==
    IF Size(ev.k) # ev.nc + ev.d + 1
    THEN /\ ev.spans = 0
         /\ ev.bases = 0
         /\ ev.errors <= 1
         /\ ev.pc \in {"return", "done"} => ev.errors = 1
         /\ \A row \in 0..(ev.mc - 1), col \in 0..(ev.nu - 1) :
               ev.p[row][col] = Zero
    ELSE /\ ev.errors = 0
         /\ ev.pc \in {"return", "done"} => ev.spans = ev.nu /\ ev.bases = ev.nu

\* C4 witness: an inconsistent call with a batch of several points has ended
C4_Witness ==
    /\ ev.pc = "done"
    /\ Size(ev.k) # ev.nc + ev.d + 1
    /\ ev.nu >= 2
    /\ ev.errors = 1

----------------------------------------------------------------------------
(* bspderiv (d, c, k), Algorithm A3.3.                                     *)

\* an index slip: the knots k(i+d) and k(i)
BdTmpSlip(d, k, i) == RDiv(R(d, 1), RSub(k[i + d], k[i]))

\* tmp = (double)d / (k(i+d+1) - k(i+1))
BdTmp(d, k, i) == RDiv(R(d, 1), RSub(k[i + d + 1], k[i + 1]))

\* the data of a B-spline of degree d: nc control points, nc + d + 1 knots
BdCalls ==
    {[d |-> d, c |-> ControlNet(mc, nc), k |-> k, nargout |-> nargout] :
        d \in 0..MaxP, nc \in 1..(MaxN + 1), mc \in 1..MaxRows,
        k \in UNION {KnotVectors(len) : len \in 2..(MaxN + MaxP + 2)},
        nargout \in 1..2}

BdValidCall(a) == Size(a.k) = EvCols(a.c) + a.d + 1 /\ a.d < EvCols(a.c)

\* Matrix dc (mc, nc-1, 0.0); RowVector dk(nk-2, 0.0)
BdStart(a) ==
    [pc |-> "points", d |-> a.d, c |-> a.c, k |-> a.k, nargout |-> a.nargout,
     mc |-> Size(a.c), nc |-> EvCols(a.c), nk |-> Size(a.k),
     dc |-> [j \in 0..(Size(a.c) - 1) |-> [i \in 0..(EvCols(a.c) - 2) |-> Zero]],
     dk |-> [i \in 0..(Size(a.k) - 3) |-> Zero], i |-> 0, retval |-> <<>>]

BdInit ==
    /\ \E a \in BdCalls : BdValidCall(a) /\ bd = BdStart(a)
    /\ fs = Idle /\ bf = Idle /\ ev = Idle /\ sk = Idle /\ fl = Idle

BdFrame == UNCHANGED <<fs, bf, ev, sk, fl>>

\* one pass of  for (i = 0; i <= nc-2; i++): column i of dc
BdPoint ==
    /\ bd.pc = "points"
    /\ bd.i <= bd.nc - 2
    /\ LET i == bd.i
           tmp == BdTmp(bd.d, bd.k, i)
       IN  bd' = [bd EXCEPT
                     !.dc = [j \in 0..(bd.mc - 1) |->
                               [bd.dc[j] EXCEPT
                                   ![i] = RMul(tmp, RSub(bd.c[j][i + 1], bd.c[j][i]))]],
                     !.i = i + 1]
    /\ BdFrame

BdPointsDone ==
    /\ bd.pc = "points"
    /\ bd.i > bd.nc - 2
    /\ bd' = [bd EXCEPT !.pc = "knots", !.i = 1]
    /\ BdFrame

\* one pass of  for (i = 1; i <= nk-2; i++)  dk(i-1) = k(i)
BdKnot ==
    /\ bd.pc = "knots"
    /\ bd.i <= bd.nk - 2
    /\ bd' = [bd EXCEPT !.dk[bd.i - 1] = bd.k[bd.i], !.i = bd.i + 1]
    /\ BdFrame

\* if (nargout>1) retval(1) = dk; retval(0) = dc
BdReturn ==
    /\ bd.pc = "knots"
    /\ bd.i > bd.nk - 2
    /\ bd' = [bd EXCEPT !.pc = "done",
                        !.retval = IF bd.nargout > 1 THEN <<bd.dc, bd.dk>>
                                   ELSE <<bd.dc>>]
    /\ BdFrame

BdNext ==
    \/ BdPoint
    \/ BdPointsDone
    \/ BdKnot
    \/ BdReturn

SpecBspderiv == BdInit /\ [][BdNext]_vars

----------------------------------------------------------------------------
(* factln (n) and bincoeff (n, k) with the static cache  ntop, a[101].     *)
(* The double gammaln (m + 1.0) = ln m! is written m: an entry of a is 0   *)
(* (the initial 0.0) or its own index.                                     *)

FactlnSize == 101

FlEmpty == [ntop |-> 0, a |-> [m \in 0..(FactlnSize - 1) |-> 0]]

RECURSIVE FlFill(_, _)
\* while (n > ntop) { ++ntop; a[ntop] = gammaln(ntop+1.0); }, for n < 101
FlFill(c, n) ==
    IF n > c.ntop
    THEN FlFill([ntop |-> c.ntop + 1,
                 a |-> [c.a EXCEPT ![c.ntop + 1] = c.ntop + 1]], n)
    ELSE c

\* factln (n) on the cache c: the value returned and the cache left
Factln(c, n) ==
    IF n <= 1 THEN [val |-> 0, cache |-> c]
    ELSE LET filled == FlFill(c, n)
         IN  [val |-> filled.a[n], cache |-> filled]

RECURSIVE Fact(_)
Fact(m) == IF m <= 1 THEN 1 ELSE m * Fact(m - 1)

\* floor (x) of a finite double
RFloor(x) == R(x[1] \div x[2], 1)

\* floor (0.5 + exp (x - y - z)) for the log-factorials x, y, z
ExpRound(x, y, z) == RFloor(RAdd(R(1, 2), R(Fact(x), Fact(y) * Fact(z))))

\* bincoeff (n, k) on the cache c: the value returned and the cache left
Bincoeff(c, n, k) ==
    LET fn == Factln(c, n)
        fk == Factln(fn.cache, k)
        fnk == Factln(fk.cache, n - k)
    IN  [val |-> ExpRound(fn.val, fk.val, fnk.val), cache |-> fnk.cache]

----------------------------------------------------------------------------
(* nrbsurfderiveval (srf, uv, d): the unweighting of Algorithm A4.4.       *)

Dims == 0..2

\* a scalar field c0 + c1*u + c2*v + c3*u*v over the parametric plane
Fields == {<<c0, c1, c2, c3>> : c0 \in 0..1, c1 \in 0..1, c2 \in 0..1, c3 \in 0..1}

\* surfderiveval for the field f at (u, v): the matrix of the partial
\* derivatives of order (k, l), k + l <= d, zero elsewhere
SurfDerivEval(f, u, v, d) ==
    [k \in 0..d |-> [l \in 0..d |->
        IF k + l > d THEN Zero
        ELSE IF k = 0 /\ l = 0
             THEN RAdd(RAdd(R(f[1], 1), RMul(R(f[2], 1), u)),
                       RAdd(RMul(R(f[3], 1), v), RMul(R(f[4], 1), RMul(u, v))))
        ELSE IF k = 1 /\ l = 0 THEN RAdd(R(f[2], 1), RMul(R(f[4], 1), v))
        ELSE IF k = 0 /\ l = 1 THEN RAdd(R(f[3], 1), RMul(R(f[4], 1), u))
        ELSE IF k = 1 /\ l = 1 THEN R(f[4], 1)
        ELSE Zero]]

\* the coordinate fields of the surfaces: c0 + u + v + c3*u*v (see Coordinate)
CoordFields == {f \in Fields : f[2] = 1 /\ f[3] = 1}

\* the homogeneous coordinate idim of the surface with coordinate field f
Coordinate(f, idim) == <<f[1] + idim, f[2], f[3] + 1, f[4]>>

\* the parametric points uv(:, iu)
SkPoint(iu) == <<R(iu, 2), R(iu + 1, 2)>>

\* M(i) of a Matrix with the given number of rows, stored column by column
LinearIndex(M, i, rows) == M[i % rows][i \div rows]

\* the start value read as Aders(l, k)
SkStartTransposed(Aders, k, l) == Aders[l][k]

\* double v = Aders(k, l)
SkStart(Aders, k, l) == Aders[k][l]

\* an inner loop over the whole row: l <= d
SkLastWholeRow(d, k) == d

\* the last l of  for (l = 0; l <= d-k; l++)
SkLast(d, k) == d - k

RECURSIVE SkLoopJ(_, _, _)
\* for (j = 1; j <= l; j++)  v -= bincoeff(l,j) * wders(0,j) * skl(idim,k,l,iu)
\* from j on; t = [v, cache, reads]
SkLoopJ(x, t, j) ==
    IF j <= x.l
    THEN LET b == Bincoeff(t.cache, x.l, j)
             e == <<x.idim, x.k, x.l, x.iu>>
         IN  SkLoopJ(x, [v |-> RSub(t.v, RMul(RMul(b.val, x.wders[0][j]), x.skl[e])),
                         cache |-> b.cache, reads |-> t.reads \cup {e}], j + 1)
    ELSE t

RECURSIVE SkLoopV2(_, _, _, _)
\* for (j = 1; j <= l; j++)  v2 += bincoeff(l,j) * wders(i)
\* from j on; t = [v2, cache]
SkLoopV2(x, t, i, j) ==
    IF j <= x.l
    THEN LET b == Bincoeff(t.cache, x.l, j)
         IN  SkLoopV2(x, [v2 |-> RAdd(t.v2, RMul(b.val, LinearIndex(x.wders, i, x.d + 1))),
                          cache |-> b.cache], i, j + 1)
    ELSE t

RECURSIVE SkLoopI(_, _, _)
\* for (i = 1; i <= k; i++) { v -= bincoeff(k,i) * wders(i,0) * skl(idim,k-i,l,iu);
\*                            v2 = ...; v -= bincoeff(k,i) * v2; }  from i on
SkLoopI(x, t, i) ==
    IF i <= x.k
    THEN LET b1 == Bincoeff(t.cache, x.k, i)
             e == <<x.idim, x.k - i, x.l, x.iu>>
             v1 == RSub(t.v, RMul(RMul(b1.val, x.wders[i][0]), x.skl[e]))
             w == SkLoopV2(x, [v2 |-> Zero, cache |-> b1.cache], i, 1)
             b2 == Bincoeff(w.cache, x.k, i)
         IN  SkLoopI(x, [v |-> RSub(v1, RMul(b2.val, w.v2)),
                         cache |-> b2.cache, reads |-> t.reads \cup {e}], i + 1)
    ELSE t

\* the body of the loop over l for the state x: v, the cache, the entries read
SkBody(x) ==
    SkLoopI(x, SkLoopJ(x, [v |-> SkStart(x.Aders, x.k, x.l), cache |-> x.cache,
                           reads |-> {}], 1), 1)

SkEntries(d, nu) == Dims \X (0..d) \X (0..d) \X (0..(nu - 1))

\* a call: the surface (its weight field and coordinate field) and d; the
\* points are SkPoint(0), ..., SkPoint(nu-1)
SkCalls ==
    {[d |-> d, nu |-> nu, weight |-> w, coord |-> f] :
        d \in 0..MaxD, nu \in 1..MaxSamples, w \in Fields, f \in CoordFields}

\* NDArray skl (3, d+1, d+1, uv.columns (), 0.0); writes counts the
\* assignments to each entry, reads and cur are the entries read by the last
\* pass of the loop over l and the entry it assigned
SkStartState(a) ==
    [pc |-> "points", d |-> a.d, nu |-> a.nu, weight |-> a.weight,
     coord |-> a.coord, iu |-> 0, idim |-> 0, k |-> 0, l |-> 0,
     wders |-> <<>>, Aders |-> <<>>,
     skl |-> [e \in SkEntries(a.d, a.nu) |-> Zero],
     cache |-> FlEmpty,
     writes |-> [e \in SkEntries(a.d, a.nu) |-> 0],
     reads |-> {}, cur |-> <<>>, retval |-> <<>>]

SkInit ==
    /\ \E a \in SkCalls : sk = SkStartState(a)
    /\ fs = Idle /\ bf = Idle /\ ev = Idle /\ bd = Idle /\ fl = Idle

SkFrame == UNCHANGED <<fs, bf, ev, bd, fl>>

\* one pass of the loop over the points begins: wders of the weights
SkPointBegin ==
    /\ sk.pc = "points"
    /\ sk.iu < sk.nu
    /\ sk' = [sk EXCEPT !.pc = "dims", !.idim = 0,
                        !.wders = SurfDerivEval(sk.weight, SkPoint(sk.iu)[1],
                                                SkPoint(sk.iu)[2], sk.d)]
    /\ SkFrame

\* retval(0) = octave_value (skl)
SkReturn ==
    /\ sk.pc = "points"
    /\ sk.iu >= sk.nu
    /\ sk' = [sk EXCEPT !.pc = "done", !.retval = <<sk.skl>>]
    /\ SkFrame

\* one pass of the loop over idim begins: Aders of the coordinate idim
SkDimBegin ==
    /\ sk.pc = "dims"
    /\ sk.idim <= 2
    /\ sk' = [sk EXCEPT !.pc = "orders", !.k = 0, !.l = 0,
                        !.Aders = SurfDerivEval(Coordinate(sk.coord, sk.idim),
                                                SkPoint(sk.iu)[1],
                                                SkPoint(sk.iu)[2], sk.d)]
    /\ SkFrame

SkPointEnd ==
    /\ sk.pc = "dims"
    /\ sk.idim > 2
    /\ sk' = [sk EXCEPT !.pc = "points", !.idim = 0, !.iu = sk.iu + 1]
    /\ SkFrame

\* one pass of the loop over l: skl(idim,k,l,iu) = v/wders(0,0)
SkOrder ==
    /\ sk.pc = "orders"
    /\ sk.k <= sk.d
    /\ sk.l <= SkLast(sk.d, sk.k)
    /\ LET t == SkBody(sk)
           e == <<sk.idim, sk.k, sk.l, sk.iu>>
       IN  sk' = [sk EXCEPT !.skl[e] = RDiv(t.v, sk.wders[0][0]),
                            !.cache = t.cache, !.writes[e] = sk.writes[e] + 1,
                            !.reads = t.reads, !.cur = e, !.l = sk.l + 1]
    /\ SkFrame

\* the loop over l ends: the next k
SkRowEnd ==
    /\ sk.pc = "orders"
    /\ sk.k <= sk.d
    /\ sk.l > SkLast(sk.d, sk.k)
    /\ sk' = [sk EXCEPT !.k = sk.k + 1, !.l = 0]
    /\ SkFrame

\* the loop over k ends: the next idim
SkDimEnd ==
    /\ sk.pc = "orders"
    /\ sk.k > sk.d
    /\ sk' = [sk EXCEPT !.pc = "dims", !.k = 0, !.l = 0, !.idim = sk.idim + 1]
    /\ SkFrame

SkNext ==
    \/ SkPointBegin
    \/ SkReturn
    \/ SkDimBegin
    \/ SkPointEnd
    \/ SkOrder
    \/ SkRowEnd
    \/ SkDimEnd

SpecSurfderiv == SkInit /\ [][SkNext]_vars

\* the binomial coefficient n over k
Binomial(n, k) == R(Fact(n) \div (Fact(k) * Fact(n - k)), 1)

RECURSIVE DocSumJ(_, _, _, _, _, _)
\* the sum over j in 1..l of binom(l,j) * wders[0][j] * skl[i][k][l-j]
DocSumJ(x, i, k, l, iu, j) ==
    IF j < 1 THEN Zero
    ELSE RAdd(DocSumJ(x, i, k, l, iu, j - 1),
              RMul(RMul(Binomial(l, j), x.wders[0][j]), x.skl[<<i, k, l - j, iu>>]))

RECURSIVE DocCross(_, _, _, _)
\* v2: the sum over j in 1..l of binom(l,j) * wders[r][j]
DocCross(x, r, l, j) ==
    IF j < 1 THEN Zero
    ELSE RAdd(DocCross(x, r, l, j - 1), RMul(Binomial(l, j), x.wders[r][j]))

RECURSIVE DocSumR(_, _, _, _, _, _)
\* the sum over r in 1..k of binom(k,r) * (wders[r][0] * skl[i][k-r][l] + v2)
DocSumR(x, i, k, l, iu, r) ==
    IF r < 1 THEN Zero
    ELSE RAdd(DocSumR(x, i, k, l, iu, r - 1),
              RMul(Binomial(k, r),
                   RAdd(RMul(x.wders[r][0], x.skl[<<i, k - r, l, iu>>]),
                        DocCross(x, r, l, l))))

\* the value of the documented recursion for the entry <<i, k, l, iu>>
DocValue(x, e) ==
    RDiv(RSub(RSub(x.Aders[e[2]][e[3]], DocSumJ(x, e[1], e[2], e[3], e[4], e[3])),
              DocSumR(x, e[1], e[2], e[3], e[4], e[2])),
         x.wders[0][0])

\* a pass of the loop over l has just assigned the entry sk.cur
SkAssigned ==
    /\ sk.pc = "orders"
    /\ sk.cur # <<>>
    /\ sk.cur[1] = sk.idim
    /\ sk.cur[4] = sk.iu
    /\ sk.k <= sk.d
    /\ sk.l > 0

\* C6: the value stored in skl[i][k][l] is the value of the documented
\* recursion, whenever wders[0][0] is not zero.
C6_DocumentedRecursion ==
    (SkAssigned /\ sk.wders[0][0] # Zero) => sk.skl[sk.cur] = DocValue(sk, sk.cur)

\* the weight is 1 everywhere: wders is 1 at (0,0) and 0 elsewhere
SkUniformWeight ==
    \A k \in 0..sk.d, l \in 0..sk.d :
        sk.wders[k][l] = IF k = 0 /\ l = 0 THEN One ELSE Zero

\* (k1, l1) comes before (k2, l2) in the order of the two loops
OrderBefore(k1, l1, k2, l2) == k1 < k2 \/ (k1 = k2 /\ l1 < l2)

\* C7: with the weight 1 everywhere the recursion passes Aders through:
\* every entry skl[i][k][l], k + l <= d, it has assigned equals Aders[k][l].
C7_UniformWeightIdentity ==
    (sk.pc = "orders" /\ SkUniformWeight) =>
        \A k \in 0..sk.d, l \in 0..sk.d :
            (k + l <= sk.d /\ OrderBefore(k, l, sk.k, sk.l)) =>
                sk.skl[<<sk.idim, k, l, sk.iu>>] = sk.Aders[k][l]

\* C7 witness: all orders up to 2 of one coordinate have been assigned under
\* the weight 1, with a mixed derivative that is not zero
C7_Witness ==
    /\ sk.pc = "orders"
    /\ SkUniformWeight
    /\ sk.d = 2
    /\ sk.k > sk.d
    /\ sk.skl[<<sk.idim, 1, 1, sk.iu>>] # Zero
    /\ sk.skl[<<sk.idim, 0, 1, sk.iu>>] # sk.skl[<<sk.idim, 1, 0, sk.iu>>]

\* the entry e is one the loops have passed: those of earlier points, of
\* earlier dimensions of this point, of earlier (k, l) of this dimension
SkPassed(e) ==
    \/ e[4] < sk.iu
    \/ e[4] = sk.iu /\ e[1] < sk.idim
    \/ e[4] = sk.iu /\ e[1] = sk.idim /\ OrderBefore(e[2], e[3], sk.k, sk.l)

\* C8: the passes for point s and dimension i assign exactly the entries
\* skl[i][k][l][s] with 0 <= k <= d, 0 <= l <= d-k, each once, and no entry
\* of another point or dimension; an entry with k + l > d keeps its 0.
C8_WritesExactlyTriangle ==
    \A e \in SkEntries(sk.d, sk.nu) :
        /\ sk.writes[e] = IF e[2] + e[3] <= sk.d /\ SkPassed(e) THEN 1 ELSE 0
        /\ e[2] + e[3] > sk.d => sk.skl[e] = Zero

\* C8 witness: a call for two points and d = 1 has returned, with an entry
\* that is not zero in the last point and dimension
C8_Witness ==
    /\ sk.pc = "done"
    /\ sk.nu >= 2
    /\ sk.d = 1
    /\ sk.skl[<<2, 0, 1, sk.nu - 1>>] # Zero
    /\ sk.writes[<<2, 1, 1, sk.nu - 1>>] = 0

\* C9: every entry read while skl[i][k][l] is computed was assigned by an
\* earlier pass, and the entry being computed is not read.
C9_ReadsFinalizedEntries ==
    SkAssigned => \A e \in sk.reads : e # sk.cur /\ sk.writes[e] >= 1

----------------------------------------------------------------------------
(* The static cache of factln over a sequence of calls of bincoeff.        *)

\* the arguments n of the calls: small ones and those around the array's end
FlArgs == (0..MaxArg) \cup {FactlnSize - 1, FactlnSize, FactlnSize + 1}

\* what ntop may hold once a store past the end of a has landed on it
FlGarbage == {-1, 0}

\* static int ntop = 0; static double a[101]; stores counts the stores to
\* each entry of a, idx is the last index used on a, maxreq the largest
\* n > 1 factln was called with, todo the calls of factln that bincoeff
\* has still to make
FlStart ==
    [pc |-> "idle", ntop |-> 0, a |-> FlEmpty.a, n |-> 0, todo |-> <<>>,
     calls |-> 0, maxreq |-> 0, stores |-> [m \in 0..(FactlnSize - 1) |-> 0],
     idx |-> -1]

FlInit ==
    /\ fl = FlStart
    /\ fs = Idle /\ bf = Idle /\ ev = Idle /\ bd = Idle /\ sk = Idle

FlFrame == UNCHANGED <<fs, bf, ev, bd, sk>>

\* factln (n) is entered
FlEnter(n, todo) ==
    [fl EXCEPT !.pc = "entry", !.n = n, !.todo = todo,
               !.maxreq = IF n > 1 THEN Max(fl.maxreq, n) ELSE fl.maxreq]

\* bincoeff (n, k): factln(n), then factln(k) and factln(n-k)
FlBincoeff ==
    /\ fl.pc = "idle"
    /\ fl.calls < MaxCalls
    /\ \E n \in FlArgs, k \in FlArgs :
          /\ k <= n
          /\ fl' = [FlEnter(n, <<k, n - k>>) EXCEPT !.calls = fl.calls + 1]
    /\ FlFrame

\* if (n <= 1) return 0.0
FlReturnZero ==
    /\ fl.pc = "entry"
    /\ fl.n <= 1
    /\ fl' = [fl EXCEPT !.pc = "returned"]
    /\ FlFrame

FlToLoop ==
    /\ fl.pc = "entry"
    /\ fl.n > 1
    /\ fl' = [fl EXCEPT !.pc = "loop"]
    /\ FlFrame

\* ++ntop; a[ntop] = gammaln(ntop+1.0), the index inside the array
FlStore ==
    /\ fl.pc = "loop"
    /\ fl.n > fl.ntop
    /\ fl.ntop + 1 \in 0..(FactlnSize - 1)
    /\ LET m == fl.ntop + 1
       IN  fl' = [fl EXCEPT !.ntop = m, !.a[m] = m,
                            !.stores[m] = fl.stores[m] + 1, !.idx = m]
    /\ FlFrame

\* ++ntop; a[ntop] = ..., the index outside the array: undefined behaviour.
\* The store lands on memory that is not modelled and the call goes on, or
\* it lands on ntop itself, or the process is stopped; what follows the
\* last two is not followed further.
FlStoreOutside ==
    /\ fl.pc = "loop"
    /\ fl.n > fl.ntop
    /\ fl.ntop + 1 \notin 0..(FactlnSize - 1)
    /\ \/ fl' = [fl EXCEPT !.ntop = fl.ntop + 1, !.idx = fl.ntop + 1]
       \/ \E g \in FlGarbage :
             fl' = [fl EXCEPT !.pc = "undefined", !.ntop = g, !.idx = fl.ntop + 1]
       \/ fl' = [fl EXCEPT !.pc = "crashed", !.idx = fl.ntop + 1]
    /\ FlFrame

\* return a[n]
FlReturn ==
    /\ fl.pc = "loop"
    /\ fl.n <= fl.ntop
    /\ fl' = [fl EXCEPT !.pc = "returned", !.idx = fl.n]
    /\ FlFrame

\* bincoeff goes on to its next call of factln
FlNextFactln ==
    /\ fl.pc = "returned"
    /\ fl.todo # <<>>
    /\ fl' = FlEnter(Head(fl.todo), Tail(fl.todo))
    /\ FlFrame

\* bincoeff returns
FlBincoeffReturn ==
    /\ fl.pc = "returned"
    /\ fl.todo = <<>>
    /\ fl' = [fl EXCEPT !.pc = "idle"]
    /\ FlFrame

FlNext ==
    \/ FlBincoeff
    \/ FlReturnZero
    \/ FlToLoop
    \/ FlStore
    \/ FlStoreOutside
    \/ FlReturn
    \/ FlNextFactln
    \/ FlBincoeffReturn

SpecFactln == FlInit /\ [][FlNext]_vars

\* C10: the cache of factln is append-only over any sequence of calls: ntop
\* never decreases; after each call it is the largest n > 1 requested so far
\* (0 if none); an entry of a once written is never written again; and a
\* call with n <= ntop or n <= 1 changes nothing of the cache.
C10_CacheAppendOnly ==
    /\ [](/\ fl.pc = "returned" => fl.ntop = fl.maxreq
          /\ \A m \in DOMAIN fl.stores : fl.stores[m] <= 1)
    /\ [][/\ fl'.ntop >= fl.ntop
          /\ (fl.pc \in {"entry", "loop"} /\ (fl.n <= 1 \/ fl.n <= fl.ntop)) =>
                (fl'.ntop = fl.ntop /\ fl'.a = fl.a)]_vars

\* C11: over every sequence of calls of bincoeff / factln with n >= k >= 0,
\* every index used to write or read the cache a lies in 0..100 (idx is -1
\* as long as a has not been accessed).
C11_CacheIndexInBounds ==
    fl.idx # -1 => fl.idx \in 0..(FactlnSize - 1)

============================================================================
